---- MODULE Spec2Model ----
(***************************************************************************)
(* A model of package merkle (src/merkle.go): an in-memory merkle tree     *)
(* whose leaves are kept sorted by their serialized datum and whose merkle *)
(* nodes are rebuilt from scratch on every append and delete.              *)
(*                                                                         *)
(* Byte strings are sequences of atoms.  A byte of a serialized datum is   *)
(* the record [b |-> n]; the h.Size() bytes of one hash digest are a       *)
(* single atom [alg |-> hash, sum |-> input], so that a digest is a        *)
(* one-atom byte string, two digests concatenate like byte strings, and    *)
(* two digests are equal iff the same hash function was fed the same       *)
(* bytes (a collision-free hash).  Slices are 1-based sequences; the       *)
(* source's 0-based indices are kept and read through At.                  *)
(***************************************************************************)
EXTENDS Integers, Sequences, FiniteSets, TLC

\* Number of distinct data the model draws from.
NumItems == 5
\* Longest argument list of AppendAndReconstruct and DeleteAndReconstruct.
MaxArgs == 2

\* The nil Datum (an interface value holding nothing).
NilDatum == 0

Items == 1..NumItems

\* crypto.Hash identifiers; only those linked into the binary are available.
HashFns == {"SHA256", "SHA512"}
Linked == {"SHA256"}
Available(hash) == hash \in Linked

Nil == [nil |-> TRUE]
Panicked == [panic |-> TRUE]
NoErr == "nil"
ErrNoData == "ErrNoData"
ErrHashUnavailable == "ErrHashUnavailable"

VARIABLES
  t,        \* the *Tree the program holds: [hash, mns, tls], or Nil
  call,     \* the last call made: [op, args]
  ret,      \* what the last call returned
  pre,      \* the tree as it was when the last call was made
  base,     \* after a delete that follows an append of the same data: the tree before that append
  inserted  \* the data the caller has put in and not taken out, in insertion order; Nil once
            \* a delete named a datum that was absent or named one twice

vars == <<t, call, ret, pre, base, inserted>>

\* ------------------------------------------------------------------ helpers

At(s, i) == s[i + 1]

Byte(n) == [b |-> n]

\* All sequences over S of length 0..n, and those without repetition.
RECURSIVE SeqsUpTo(_, _)
SeqsUpTo(S, n) ==
  IF n = 0 THEN {<<>>}
  ELSE LET shorter == SeqsUpTo(S, n - 1)
       IN shorter \cup {Append(s, x) : s \in {q \in shorter : Len(q) = n - 1}, x \in S}

Range(s) == {s[i] : i \in DOMAIN s}
Distinct(s) == \A i, j \in DOMAIN s : i # j => s[i] # s[j]

\* The sequences over S of length 0..n that name no element twice.
RECURSIVE DistinctSeqsUpTo(_, _)
DistinctSeqsUpTo(S, n) ==
  IF n = 0 THEN {<<>>}
  ELSE LET shorter == DistinctSeqsUpTo(S, n - 1)
       IN shorter \cup
            UNION {{Append(s, x) : x \in S \ Range(s)} : s \in {q \in shorter : Len(q) = n - 1}}

\* ------------------------------------------------------------------ Datum and hash

\* Datum.Serialize of the model's data: datum d is the numeral d, serialized as its binary
\* digits, most significant first (1, 10, 11, 100, ...), so that the byte order of the
\* serialized data is not the order of the data.
RECURSIVE Serialize(_)
Serialize(d) ==
  IF d < 2 THEN <<Byte(d)>> ELSE Append(Serialize(d \div 2), Byte(d % 2))

\* h.Reset(); h.Write(bytes); h.Sum(nil)
Hash(h, bytes) == <<[alg |-> h, sum |-> bytes]>>

\* bytes.Compare on serialized data: -1, 0 or 1, lexicographically.
RECURSIVE Compare(_, _)
Compare(a, b) ==
  IF Len(a) = 0 /\ Len(b) = 0 THEN 0
  ELSE IF Len(a) = 0 THEN -1
  ELSE IF Len(b) = 0 THEN 1
  ELSE IF Head(a).b < Head(b).b THEN -1
  ELSE IF Head(a).b > Head(b).b THEN 1
  ELSE Compare(Tail(a), Tail(b))

\* ------------------------------------------------------------------ sorting and searching

\* The less functions the source hands to sort.Slice: by serialized datum, or by orderedID.
less(by, x, y) ==
  IF by = "datum" THEN Compare(x.datum, y.datum) = -1 ELSE x.orderedID < y.orderedID

\* Where leaf goes in a sorted slice: before the first leaf it is less than.
RECURSIVE Insert(_, _, _)
Insert(sorted, leaf, by) ==
  IF sorted = <<>> THEN <<leaf>>
  ELSE IF less(by, leaf, Head(sorted)) THEN <<leaf>> \o sorted
  ELSE <<Head(sorted)>> \o Insert(Tail(sorted), leaf, by)

\* sort.Slice(s, less), for a slice whose keys are distinct (the order is then unique).
RECURSIVE SortSlice(_, _)
SortSlice(s, by) ==
  IF s = <<>> THEN <<>> ELSE Insert(SortSlice(Tail(s), by), Head(s), by)

\* sort.Search(len(tls), func(k) { return bytes.Compare(tls[k].datum, target) >= 0 }):
\* the binary search of the standard library, on the half-open range [i, j).
RECURSIVE SearchFrom(_, _, _, _)
SearchFrom(tls, target, i, j) ==
  IF i < j
  THEN LET h == (i + j) \div 2
       IN IF ~(Compare(At(tls, h).datum, target) >= 0)
          THEN SearchFrom(tls, target, h + 1, j)
          ELSE SearchFrom(tls, target, i, h)
  ELSE i

Search(tls, target) == SearchFrom(tls, target, 0, Len(tls))

\* ------------------------------------------------------------------ leaves

\* Mutant of appendLeavesFrom: the orderedIDs of the new leaves start again at 0.
RECURSIVE appendLeavesRestarting(_, _, _, _)
appendLeavesRestarting(h, numOld, newData, i) ==
  IF i >= Len(newData) THEN <<>>
  ELSE LET serializedDatum == Serialize(At(newData, i))
       IN <<[digest |-> Hash(h, serializedDatum),
             datum |-> serializedDatum,
             orderedID |-> i]>>
          \o appendLeavesRestarting(h, numOld, newData, i + 1)

\* The loop of appendTreeLeaves: leaf i of the new data gets the orderedID len(oldTreeLeaves)+i.
RECURSIVE appendLeavesFrom(_, _, _, _)
appendLeavesFrom(h, numOld, newData, i) ==
  IF i >= Len(newData) THEN <<>>
  ELSE LET serializedDatum == Serialize(At(newData, i))
       IN <<[digest |-> Hash(h, serializedDatum),
             datum |-> serializedDatum,
             orderedID |-> numOld + i]>>
          \o appendLeavesFrom(h, numOld, newData, i + 1)

\* Mutant of appendTreeLeaves: the leaves are not sorted after the append.
appendTreeLeavesUnsorted(h, oldTreeLeaves, newData) ==
  oldTreeLeaves \o appendLeavesFrom(h, Len(oldTreeLeaves), newData, 0)

appendTreeLeaves(h, oldTreeLeaves, newData) ==
  SortSlice(oldTreeLeaves \o appendLeavesFrom(h, Len(oldTreeLeaves), newData, 0), "datum")

\* Mutant of RemoveAt: the leaf after the one found is removed.
RemoveAtNext(oldTls, j) == SubSeq(oldTls, 1, j + 1) \o SubSeq(oldTls, j + 3, Len(oldTls))

\* oldTls = append(oldTls[:j], oldTls[j+1:]...)
RemoveAt(oldTls, j) == SubSeq(oldTls, 1, j) \o SubSeq(oldTls, j + 2, Len(oldTls))

\* The loop of deleteTreeLeaves that removes each datum it finds.
RECURSIVE removeFound(_, _, _)
removeFound(oldTls, delSerializedData, i) ==
  IF i >= Len(delSerializedData) THEN oldTls
  ELSE LET j == Search(oldTls, At(delSerializedData, i))
       IN IF j < Len(oldTls) /\ Compare(At(oldTls, j).datum, At(delSerializedData, i)) = 0
          THEN removeFound(RemoveAt(oldTls, j), delSerializedData, i + 1)
          ELSE removeFound(oldTls, delSerializedData, i + 1)

\* Mutant of resetOrderedIDs: the leaves that remain keep the orderedIDs they had.
resetOrderedIDsKept(oldTls) == oldTls

\* for i := range oldTls { oldTls[i].orderedID = uint(i) }
resetOrderedIDs(oldTls) ==
  [i \in DOMAIN oldTls |-> [oldTls[i] EXCEPT !.orderedID = i - 1]]

\* newTreeLeaves = make([]treeLeaf, newLen); copy(newTreeLeaves, oldTls); sort by datum.
\* make panics on a negative length, copy copies min(len(dst), len(src)) leaves.
\* The result is [panic, newTreeLeaves].
copyAndSort(oldTls, newLen) ==
  IF newLen < 0 THEN [panic |-> TRUE, newTreeLeaves |-> <<>>]
  ELSE [panic |-> FALSE,
        newTreeLeaves |->
          SortSlice(SubSeq(oldTls, 1, IF newLen < Len(oldTls) THEN newLen ELSE Len(oldTls)),
                    "datum")]

deleteTreeLeaves(oldTreeLeaves, delData) ==
  copyAndSort(
    resetOrderedIDs(
      SortSlice(removeFound(oldTreeLeaves, [i \in DOMAIN delData |-> Serialize(delData[i])], 0),
                "orderedID")),
    Len(oldTreeLeaves) - Len(delData))

\* ------------------------------------------------------------------ merkle nodes

\* Mutant of rowSizesOf: an odd number of nodes is halved without rounding up.
RECURSIVE rowSizesFloor(_)
rowSizesFloor(numLeaves) ==
  IF numLeaves > 1
  THEN <<numLeaves \div 2>> \o rowSizesFloor(numLeaves \div 2)
  ELSE <<>>

\* calculateMerkleNumbers: the sizes of the rows of merkle nodes, the row above the leaves first.
RECURSIVE rowSizesOf(_)
rowSizesOf(numLeaves) ==
  IF numLeaves > 1
  THEN LET next == IF numLeaves % 2 = 1 THEN (numLeaves \div 2) + 1 ELSE numLeaves \div 2
       IN <<next>> \o rowSizesOf(next)
  ELSE <<>>

RECURSIVE SumSeq(_)
SumSeq(s) == IF s = <<>> THEN 0 ELSE Head(s) + SumSeq(Tail(s))

calculateMerkleNumbers(numLeaves) ==
  LET mns == rowSizesOf(numLeaves)
  IN [numMerkleNodes |-> SumSeq(mns), mns |-> mns]

\* Mutant of nodeDigest: a node with one child hashes that child twice (the convention of
\* duplicating the last node).
nodeDigestDuplicating(h, children, j) ==
  Hash(h, At(children, 2 * j)
          \o (IF 2 * j + 1 < Len(children) THEN At(children, 2 * j + 1) ELSE At(children, 2 * j)))

\* One merkle node: the hash of the child at 2j followed by the child at 2j+1, if there is one.
nodeDigest(h, children, j) ==
  Hash(h, At(children, 2 * j) \o (IF 2 * j + 1 < Len(children) THEN At(children, 2 * j + 1) ELSE <<>>))

\* One row of merkle nodes above the digests children.
merkleRow(h, children, size) == [j \in 1..size |-> nodeDigest(h, children, j - 1)]

\* The rows of merkle nodes above the digests children, the root row first: rowSizes are
\* their sizes, the lowest row first.
RECURSIVE merkleRows(_, _, _)
RECURSIVE rowAndAbove(_, _, _)
merkleRows(h, children, rowSizes) ==
  IF rowSizes = <<>> THEN <<>>
  ELSE rowAndAbove(h, merkleRow(h, children, Head(rowSizes)), Tail(rowSizes))

rowAndAbove(h, row, rowSizesAbove) == merkleRows(h, row, rowSizesAbove) \o <<row>>

\* The last row of mns hashes the leaves' digests, every other row the row below it.
constructMerkleNodes(h, tls) ==
  merkleRows(h, [k \in DOMAIN tls |-> tls[k].digest], calculateMerkleNumbers(Len(tls)).mns)

\* ------------------------------------------------------------------ Tree

Height(tr) == Len(tr.mns) + 1
NumLeaves(tr) == Len(tr.tls)
MerkleSize(tr) == SumSeq([i \in DOMAIN tr.mns |-> Len(tr.mns[i])])
Size(tr) == MerkleSize(tr) + NumLeaves(tr)

\* t.mns[0][0]; indexing an empty mns panics.
MerkleRoot(tr) == IF Len(tr.mns) = 0 THEN Panicked ELSE [root |-> At(At(tr.mns, 0), 0)]

\* &Tree{hash, mns, tls} with the merkle nodes constructed above the leaves tls.
treeOf(hash, tls) == [hash |-> hash, mns |-> constructMerkleNodes(hash, tls), tls |-> tls]

\* Mutant of NewTree: the data are looked at before the hash function.
NewTreeDataFirst(hash, data) ==
  IF Len(data) = 0 THEN [tree |-> Nil, err |-> ErrNoData]
  ELSE IF ~Available(hash) THEN [tree |-> Nil, err |-> ErrHashUnavailable]
  ELSE [tree |-> treeOf(hash, appendTreeLeaves(hash, <<>>, data)), err |-> NoErr]

NewTree(hash, data) ==
  IF ~Available(hash) THEN [tree |-> Nil, err |-> ErrHashUnavailable]
  ELSE IF Len(data) = 0 THEN [tree |-> Nil, err |-> ErrNoData]
  ELSE [tree |-> treeOf(hash, appendTreeLeaves(hash, <<>>, data)), err |-> NoErr]

AppendAndReconstruct(tr, data) ==
  IF Len(data) = 0 THEN tr
  ELSE treeOf(tr.hash, appendTreeLeaves(tr.hash, tr.tls, data))

\* t.tls = deleteTreeLeaves(...) is not assigned when deleteTreeLeaves panics.
reconstructOrPanic(tr, del) ==
  IF del.panic THEN Panicked ELSE treeOf(tr.hash, del.newTreeLeaves)

\* The tree after the call, or Panicked (the tree is then as it was).
DeleteAndReconstruct(tr, data) ==
  IF Len(data) = 0 THEN tr
  ELSE reconstructOrPanic(tr, deleteTreeLeaves(tr.tls, data))

\* ------------------------------------------------------------------ verification

Verified == [ok |-> TRUE, err |-> NoErr]
NotVerified == [ok |-> FALSE, err |-> NoErr]
NoData == [ok |-> FALSE, err |-> ErrNoData]

\* Mutant of verifyPath: the loop stops one row early and never compares the root.
RECURSIVE verifyPathBelowRoot(_, _, _, _)
verifyPathBelowRoot(tr, currentLevel, lastParentIndex, lastParentDigest) ==
  IF currentLevel > 1
  THEN LET currentIndex == lastParentIndex
           currentDigest == lastParentDigest
           row == At(tr.mns, currentLevel)
           even == currentIndex % 2 = 0
           siblingDigest == IF even
                            THEN IF currentIndex < Len(row) - 1
                                 THEN At(row, currentIndex + 1)
                                 ELSE <<>>
                            ELSE At(row, currentIndex - 1)
           parentIndex == IF even THEN currentIndex \div 2 ELSE (currentIndex - 1) \div 2
           parentDigest == At(At(tr.mns, currentLevel - 1), parentIndex)
           first == IF even THEN currentDigest ELSE siblingDigest
           second == IF even THEN siblingDigest ELSE currentDigest
       IN IF parentDigest # Hash(tr.hash, first \o second)
          THEN NotVerified
          ELSE verifyPathBelowRoot(tr, currentLevel - 1, parentIndex, parentDigest)
  ELSE Verified

\* The loop of verify over the rows of merkle nodes, from the row above the leaves to the root.
RECURSIVE verifyPath(_, _, _, _)
verifyPath(tr, currentLevel, lastParentIndex, lastParentDigest) ==
  IF currentLevel > 0
  THEN LET currentIndex == lastParentIndex
           currentDigest == lastParentDigest
           row == At(tr.mns, currentLevel)
           even == currentIndex % 2 = 0
           siblingDigest == IF even
                            THEN IF currentIndex < Len(row) - 1
                                 THEN At(row, currentIndex + 1)
                                 ELSE <<>>
                            ELSE At(row, currentIndex - 1)
           parentIndex == IF even THEN currentIndex \div 2 ELSE (currentIndex - 1) \div 2
           parentDigest == At(At(tr.mns, currentLevel - 1), parentIndex)
           first == IF even THEN currentDigest ELSE siblingDigest
           second == IF even THEN siblingDigest ELSE currentDigest
       IN IF parentDigest # Hash(tr.hash, first \o second)
          THEN NotVerified
          ELSE verifyPath(tr, currentLevel - 1, parentIndex, parentDigest)
  ELSE Verified

\* verify: the leaf's digest is recomputed from its datum, its sibling's is read from the
\* leaf; t.mns[len(t.mns)-1] panics when there is no row of merkle nodes.
verify(tr, currentIndex) ==
  LET currentDigest == Hash(tr.hash, At(tr.tls, currentIndex).datum)
      even == currentIndex % 2 = 0
      siblingDigest == IF even
                       THEN IF currentIndex < Len(tr.tls) - 1
                            THEN At(tr.tls, currentIndex + 1).digest
                            ELSE <<>>
                       ELSE At(tr.tls, currentIndex - 1).digest
      parentIndex == IF even THEN currentIndex \div 2 ELSE (currentIndex - 1) \div 2
      parentDigest == At(At(tr.mns, Len(tr.mns) - 1), parentIndex)
      first == IF even THEN currentDigest ELSE siblingDigest
      second == IF even THEN siblingDigest ELSE currentDigest
  IN IF Len(tr.mns) = 0 THEN Panicked
     ELSE IF parentDigest # Hash(tr.hash, first \o second) THEN NotVerified
     ELSE verifyPath(tr, Len(tr.mns) - 1, parentIndex, parentDigest)

\* The first index of a range loop over the leaves at which found holds, or none.
FirstIndex(hits) == CHOOSE i \in hits : \A k \in hits : i <= k

VerifyDigest(tr, digest) ==
  LET hits == {leafIndex \in 0..(Len(tr.tls) - 1) : digest = At(tr.tls, leafIndex).datum}
  IN IF hits # {} THEN verify(tr, FirstIndex(hits)) ELSE NoData

VerifyOrderedID(tr, orderedID) ==
  LET hits == {leafIndex \in 0..(Len(tr.tls) - 1) : At(tr.tls, leafIndex).orderedID = orderedID}
  IN IF hits # {} THEN verify(tr, FirstIndex(hits)) ELSE NoData

\* Mutant of VerifySerializedDatum: the leaf found by the search is not compared with the datum.
VerifySerializedDatumUnchecked(tr, serializedDatum) ==
  LET leafIndex == Search(tr.tls, serializedDatum)
  IN IF leafIndex < Len(tr.tls) THEN verify(tr, leafIndex) ELSE NoData

VerifySerializedDatum(tr, serializedDatum) ==
  LET leafIndex == Search(tr.tls, serializedDatum)
  IN IF leafIndex < Len(tr.tls) /\ Compare(At(tr.tls, leafIndex).datum, serializedDatum) = 0
     THEN verify(tr, leafIndex)
     ELSE NoData

VerifyDatum(tr, datum) ==
  IF datum = NilDatum THEN NoData ELSE VerifySerializedDatum(tr, Serialize(datum))

\* Mutant of Leaves: the copy of the leaves is not sorted by orderedID.
LeavesAsStored(tr) == [i \in DOMAIN tr.tls |-> tr.tls[i].datum]

\* Leaves: the serialized data of a copy of the leaves sorted by orderedID.
Leaves(tr) ==
  LET tls2 == SortSlice(tr.tls, "orderedID")
  IN [i \in DOMAIN tls2 |-> tls2[i].datum]

\* ------------------------------------------------------------------ the caller

SerializeAll(data) == [i \in DOMAIN data |-> Serialize(data[i])]
Present(tr, d) == \E k \in DOMAIN tr.tls : tr.tls[k].datum = Serialize(d)
Stored(tr) == {d \in Items : Present(tr, d)}
Without(data, gone) == SelectSeq(data, LAMBDA d : d \notin gone)

Unknown == [known |-> FALSE, data |-> <<>>]
Done == [done |-> TRUE]

\* What the caller may be asked to verify by digest: the digest of a datum, as documented,
\* or the bytes of a serialized datum.
DigestArgs(tr) ==
  {Hash(tr.hash, Serialize(d)) : d \in Items} \cup {Serialize(d) : d \in Items}

NoCall == [op |-> "none", args |-> <<>>]

\* The caller is between two calls.
Idle == call = NoCall

Init ==
  /\ t = Nil
  /\ call = NoCall
  /\ ret = Nil
  /\ pre = Nil
  /\ base = Nil
  /\ inserted = Unknown

\* The model follows one tree from its construction: NewTree does not read an earlier tree.
CallNewTree ==
  /\ Idle
  /\ t = Nil
  /\ \E hash \in HashFns, data \in DistinctSeqsUpTo(Items, NumItems) :
       LET r == NewTree(hash, data)
       IN /\ t' = r.tree
          /\ ret' = r
          /\ call' = [op |-> "NewTree", args |-> [hash |-> hash, data |-> data]]
          /\ inserted' = IF r.err = NoErr THEN [known |-> TRUE, data |-> data] ELSE Unknown
  /\ pre' = t
  /\ base' = Nil

\* The data appended are distinct and not yet in the tree (spec section 3: the serialized
\* data of a tree are unique).
CallAppendAndReconstruct ==
  /\ Idle
  /\ t # Nil
  /\ \E data \in DistinctSeqsUpTo(Items \ Stored(t), MaxArgs) :
       /\ t' = AppendAndReconstruct(t, data)
       /\ call' = [op |-> "AppendAndReconstruct", args |-> data]
       /\ inserted' = IF inserted.known
                      THEN [inserted EXCEPT !.data = inserted.data \o data]
                      ELSE inserted
  /\ ret' = Done
  /\ pre' = t
  /\ base' = Nil

\* A call of DeleteAndReconstruct.  It is made between two calls or, to take back the data
\* just appended, right after that append.
DeleteReturns(data, r) ==
  /\ Idle \/ (call.op = "AppendAndReconstruct" /\ call.args = data)
  /\ t' = IF r = Panicked THEN t ELSE r
  /\ ret' = IF r = Panicked THEN Panicked ELSE Done
  /\ call' = [op |-> "DeleteAndReconstruct", args |-> data]
  /\ base' = IF call.op = "AppendAndReconstruct" /\ call.args = data THEN pre ELSE Nil
  /\ inserted' = IF inserted.known /\ Distinct(data) /\ Range(data) \subseteq Stored(t)
                 THEN [inserted EXCEPT !.data = Without(inserted.data, Range(data))]
                 ELSE Unknown
  /\ pre' = t

DeleteCall(data) == DeleteReturns(data, DeleteAndReconstruct(t, data))

\* The lists of distinct data that are all in the tree.
PresentArgs(tr) == DistinctSeqsUpTo(Stored(tr), MaxArgs)

\* The data deleted are in the tree, each named once.
CallDeleteAndReconstruct ==
  /\ Idle \/ call.op = "AppendAndReconstruct"
  /\ t # Nil
  /\ \E data \in PresentArgs(t) : DeleteCall(data)

\* The list names a datum that is not in the tree, or names a datum twice.
CallDeleteAbsent ==
  /\ Idle
  /\ t # Nil
  /\ \E data \in SeqsUpTo(Items, MaxArgs) \ PresentArgs(t) : DeleteCall(data)

CallVerifyDatum ==
  /\ Idle
  /\ t # Nil
  /\ \E datum \in Items \cup {NilDatum} :
       /\ ret' = VerifyDatum(t, datum)
       /\ call' = [op |-> "VerifyDatum", args |-> datum]
  /\ pre' = t
  /\ base' = Nil
  /\ UNCHANGED <<t, inserted>>

CallVerifyDigest ==
  /\ Idle
  /\ t # Nil
  /\ \E digest \in DigestArgs(t) :
       /\ ret' = VerifyDigest(t, digest)
       /\ call' = [op |-> "VerifyDigest", args |-> digest]
  /\ pre' = t
  /\ base' = Nil
  /\ UNCHANGED <<t, inserted>>

CallVerifyOrderedID ==
  /\ Idle
  /\ t # Nil
  /\ \E orderedID \in 0..NumItems :
       /\ ret' = VerifyOrderedID(t, orderedID)
       /\ call' = [op |-> "VerifyOrderedID", args |-> orderedID]
  /\ pre' = t
  /\ base' = Nil
  /\ UNCHANGED <<t, inserted>>

CallLeaves ==
  /\ Idle
  /\ t # Nil
  /\ ret' = [leaves |-> Leaves(t)]
  /\ call' = [op |-> "Leaves", args |-> <<>>]
  /\ pre' = t
  /\ base' = Nil
  /\ UNCHANGED <<t, inserted>>

CallMerkleRoot ==
  /\ Idle
  /\ t # Nil
  /\ ret' = MerkleRoot(t)
  /\ call' = [op |-> "MerkleRoot", args |-> <<>>]
  /\ pre' = t
  /\ base' = Nil
  /\ UNCHANGED <<t, inserted>>

\* The caller has read what the call returned and goes on.
Return ==
  /\ ~Idle
  /\ call' = NoCall
  /\ ret' = Nil
  /\ pre' = Nil
  /\ base' = Nil
  /\ UNCHANGED <<t, inserted>>

Next ==
  \/ CallNewTree
  \/ CallAppendAndReconstruct
  \/ CallDeleteAndReconstruct
  \/ CallVerifyDatum
  \/ CallVerifyDigest
  \/ CallVerifyOrderedID
  \/ CallLeaves
  \/ CallMerkleRoot
  \/ Return

Spec == Init /\ [][Next]_vars

\* The same caller, who may also delete what is not there.
NextAnyDelete == Next \/ CallDeleteAbsent

SpecAnyDelete == Init /\ [][NextAnyDelete]_vars

\* ------------------------------------------------------------------ altered digests

\* The tree tr with t.tls[k].digest overwritten; the datum and every other field are as they were.
AlterLeafDigest(tr, k, digest) == [tr EXCEPT !.tls[k + 1].digest = digest]

\* The tree tr with t.mns[i][j] overwritten.
AlterNodeDigest(tr, i, j, digest) == [tr EXCEPT !.mns[i + 1][j + 1] = digest]

\* Digests to overwrite a stored digest with: the digest of no bytes, which the tree stores
\* nowhere, and the digest the first leaf stores.
AlteredDigests(tr) == {Hash(tr.hash, <<>>), At(tr.tls, 0).digest}

\* VerifyDatum of a stored datum on a copy of the tree in which the digest field of one leaf
\* was overwritten with another value.  pre is the copy the call ran on, base the tree as built.
CallVerifyDatumLeafAltered ==
  /\ Idle
  /\ t # Nil
  /\ \E datum \in Stored(t), k \in 0..(NumLeaves(t) - 1) :
       \E digest \in AlteredDigests(t) \ {At(t.tls, k).digest} :
         /\ ret' = VerifyDatum(AlterLeafDigest(t, k, digest), datum)
         /\ pre' = AlterLeafDigest(t, k, digest)
         /\ call' = [op |-> "VerifyDatum", args |-> datum]
  /\ base' = t
  /\ UNCHANGED <<t, inserted>>

\* VerifyDatum of a stored datum on a copy of the tree in which one merkle node was
\* overwritten with another value.
CallVerifyDatumNodeAltered ==
  /\ Idle
  /\ t # Nil
  /\ \E datum \in Stored(t), i \in 0..(Len(t.mns) - 1) :
       \E j \in 0..(Len(At(t.mns, i)) - 1) :
         \E digest \in AlteredDigests(t) \ {At(At(t.mns, i), j)} :
           /\ ret' = VerifyDatum(AlterNodeDigest(t, i, j, digest), datum)
           /\ pre' = AlterNodeDigest(t, i, j, digest)
           /\ call' = [op |-> "VerifyDatum", args |-> datum]
  /\ base' = t
  /\ UNCHANGED <<t, inserted>>

\* The caller builds and updates a tree, and verifies stored data on altered copies of it.
NextAltered ==
  \/ CallNewTree
  \/ CallAppendAndReconstruct
  \/ CallDeleteAndReconstruct
  \/ CallVerifyDatum
  \/ CallVerifyDatumLeafAltered
  \/ CallVerifyDatumNodeAltered
  \/ Return

SpecAltered == Init /\ [][NextAltered]_vars

\* ------------------------------------------------------------------ sanity

TypeOK ==
  /\ t # Nil => /\ t.hash \in Linked
                /\ NumLeaves(t) <= NumItems
                /\ Height(t) = Len(calculateMerkleNumbers(NumLeaves(t)).mns) + 1
                /\ MerkleSize(t) = calculateMerkleNumbers(NumLeaves(t)).numMerkleNodes
                /\ Size(t) = MerkleSize(t) + NumLeaves(t)

\* ------------------------------------------------------------------ claims

\* The 0-based index of the leaf that stores datum d.
LeafIndexOf(tr, d) == CHOOSE k \in 0..(Len(tr.tls) - 1) : At(tr.tls, k).datum = Serialize(d)

\* C1: in a tree of at least two leaves reached by NewTree, appends of new data and deletes
\* of stored data, VerifyDatum(x) returns (true, nil) for every datum x the tree stores.
C1_VerifyStored ==
  (call.op = "VerifyDatum" /\ call.args \in Stored(t) /\ NumLeaves(t) >= 2) => ret = Verified

\* C1 witness: the last leaf of a five-leaf tree, which has no sibling, and whose parent
\* has none either, was verified.
C1_Witness ==
  /\ call.op = "VerifyDatum"
  /\ call.args \in Stored(t)
  /\ NumLeaves(t) = 5
  /\ LeafIndexOf(t, call.args) = 4
  /\ ret = Verified

\* C2: VerifyDatum of a datum that is not stored, or of the nil Datum, returns
\* (false, ErrNoData), never (false, nil).
C2_VerifyAbsent ==
  (call.op = "VerifyDatum" /\ call.args \notin Stored(t)) => ret = NoData

\* C2 witness: a datum that sorts before some stored leaf, and is not stored, was looked up.
C2_Witness ==
  /\ call.op = "VerifyDatum"
  /\ call.args \in Items \ Stored(t)
  /\ NumLeaves(t) >= 2
  /\ \E k \in DOMAIN t.tls : Compare(Serialize(call.args), t.tls[k].datum) = -1
  /\ ret = NoData

\* C3 (as claimed): DeleteAndReconstruct of any list completes, removes exactly the listed
\* data that were stored, and keeps every other leaf.
C3_DeleteSkipsAbsent ==
  call.op = "DeleteAndReconstruct" =>
    /\ ret = Done
    /\ Stored(t) = Stored(pre) \ Range(call.args)

Reverse(s) == [i \in DOMAIN s |-> s[Len(s) + 1 - i]]
Rotate(s) == IF Len(s) < 2 THEN s ELSE Tail(s) \o <<Head(s)>>
SwapFirstTwo(s) == IF Len(s) < 2 THEN s ELSE <<s[2], s[1]>> \o SubSeq(s, 3, Len(s))

\* C4: NewTree of a non-empty list of distinct data succeeds, and the merkle root is that
\* of the same data given in another order.  The orders compared are the list reversed,
\* rotated by one and with its first two data swapped: rotation and swap generate every
\* permutation, and every list is an input of NewTree, so all orders of a set agree.
C4_RootOfSet ==
  (call.op = "NewTree" /\ Available(call.args.hash) /\ Len(call.args.data) > 0) =>
    /\ ret.err = NoErr
    /\ t # Nil
    /\ \A p \in {Reverse(call.args.data), Rotate(call.args.data), SwapFirstTwo(call.args.data)} :
         /\ NewTree(call.args.hash, p).err = NoErr
         /\ MerkleRoot(NewTree(call.args.hash, p).tree) = MerkleRoot(t)

\* C4 witness: a tree was built from five data given neither in ascending nor in
\* descending byte order.
C4_Witness ==
  /\ call.op = "NewTree"
  /\ ret.err = NoErr
  /\ NumLeaves(t) = 5
  /\ Leaves(t) # [k \in DOMAIN t.tls |-> t.tls[k].datum]
  /\ Leaves(t) # Reverse([k \in DOMAIN t.tls |-> t.tls[k].datum])

\* C5 (as claimed): a tree of exactly one leaf has no row of merkle nodes and MerkleRoot()
\* returns the digest of that leaf.
C5_SingleLeafRoot ==
  (call.op = "MerkleRoot" /\ NumLeaves(t) = 1) =>
    /\ Len(t.mns) = 0
    /\ ret = [root |-> t.tls[1].digest]

\* C6: a DeleteAndReconstruct of the data the preceding AppendAndReconstruct added (data
\* the tree did not hold) gives back the merkle root, the number of leaves and the height
\* the tree had before the append.
C6_AppendDeleteRoundTrip ==
  (call.op = "DeleteAndReconstruct" /\ base # Nil) =>
    /\ ret = Done
    /\ MerkleRoot(t) = MerkleRoot(base)
    /\ NumLeaves(t) = NumLeaves(base)
    /\ Height(t) = Height(base)

\* C6 witness: two data were appended to a tree of at least two leaves and deleted again.
C6_Witness ==
  /\ call.op = "DeleteAndReconstruct"
  /\ base # Nil
  /\ Len(call.args) = 2
  /\ NumLeaves(base) >= 2
  /\ NumLeaves(pre) = NumLeaves(base) + 2
  /\ MerkleRoot(pre) # MerkleRoot(base)

\* C7: after NewTree, appends and deletes of stored data, Leaves() returns the serialized
\* data in insertion order (the data given to NewTree, then the data appended, without
\* the data deleted), as many as NumLeaves(), and leaves the tree as it was.
C7_LeavesInInsertionOrder ==
  (call.op = "Leaves" /\ inserted.known) =>
    /\ ret = [leaves |-> SerializeAll(inserted.data)]
    /\ Len(ret.leaves) = NumLeaves(t)
    /\ t = pre

\* C7 witness: Leaves() was called on a tree of at least three leaves whose insertion
\* order is not the order the leaves are stored in.
C7_Witness ==
  /\ call.op = "Leaves"
  /\ inserted.known
  /\ Len(ret.leaves) >= 3
  /\ ret.leaves # [k \in DOMAIN t.tls |-> t.tls[k].datum]

\* C8 (as claimed): NewTree returns no tree and ErrNoData when no data are given, no tree
\* and ErrHashUnavailable when the hash function is not available, a tree and no error
\* otherwise.
C8_NewTreeErrorsAsClaimed ==
  call.op = "NewTree" =>
    /\ Len(call.args.data) = 0 => ret = [tree |-> Nil, err |-> ErrNoData]
    /\ ~Available(call.args.hash) => ret = [tree |-> Nil, err |-> ErrHashUnavailable]
    /\ (Len(call.args.data) > 0 /\ Available(call.args.hash)) =>
         (ret.err = NoErr /\ ret.tree # Nil)

\* C8 (amended): NewTree returns no tree and ErrHashUnavailable whenever the hash function
\* is not available, also when no data are given; no tree and ErrNoData when the hash
\* function is available and no data are given; a tree and no error otherwise.
C8_NewTreeErrors ==
  call.op = "NewTree" =>
    /\ ~Available(call.args.hash) => ret = [tree |-> Nil, err |-> ErrHashUnavailable]
    /\ (Available(call.args.hash) /\ Len(call.args.data) = 0) =>
         ret = [tree |-> Nil, err |-> ErrNoData]
    /\ (Available(call.args.hash) /\ Len(call.args.data) > 0) =>
         (ret.err = NoErr /\ ret.tree # Nil /\ t = ret.tree)
    /\ ret.tree = Nil => t = Nil

\* C8 witness: NewTree was called with a hash function that is not available and no data.
C8_Witness ==
  /\ call.op = "NewTree"
  /\ ~Available(call.args.hash)
  /\ Len(call.args.data) = 0
  /\ ret = [tree |-> Nil, err |-> ErrHashUnavailable]

\* C9 (as claimed): VerifyDigest(d) returns (true, nil) when d is the digest of a stored
\* leaf, and (false, ErrNoData) only when no leaf has the digest d.
C9_VerifyDigestOfLeaf ==
  call.op = "VerifyDigest" =>
    /\ (\E k \in DOMAIN t.tls : t.tls[k].digest = call.args) => ret = Verified
    /\ ret = NoData => ~(\E k \in DOMAIN t.tls : t.tls[k].digest = call.args)

CeilHalf(n) == (n + 1) \div 2

\* The digests below row i of the merkle nodes of tr (1 is the root row): the leaves'
\* digests below the last row, the next row below every other.
Below(tr, i) ==
  IF i = Len(tr.mns) THEN [k \in DOMAIN tr.tls |-> tr.tls[k].digest] ELSE tr.mns[i + 1]

\* C10: for a tree of L >= 2 leaves, the row above the leaves has ceil(L/2) nodes, every
\* other row half the nodes of the row below it, rounded up, and the root row one; node
\* j of a row is Hash(child[2j] ++ child[2j+1]), or Hash(child[2j]) alone when there is no
\* child 2j+1; so three leaves a, b, c give the root H(H(a.digest ++ b.digest) ++ H(c.digest)).
C10_RowsAndNodes ==
  (t # Nil /\ NumLeaves(t) >= 2) =>
    /\ Len(t.mns) >= 1
    /\ Len(t.mns[1]) = 1
    /\ \A i \in DOMAIN t.mns : Len(t.mns[i]) = CeilHalf(Len(Below(t, i)))
    /\ \A i \in DOMAIN t.mns : \A j \in 0..(Len(t.mns[i]) - 1) :
         At(t.mns[i], j) =
           IF 2 * j + 1 < Len(Below(t, i))
           THEN Hash(t.hash, At(Below(t, i), 2 * j) \o At(Below(t, i), 2 * j + 1))
           ELSE Hash(t.hash, At(Below(t, i), 2 * j))
    /\ NumLeaves(t) = 3 =>
         MerkleRoot(t) =
           [root |-> Hash(t.hash, Hash(t.hash, t.tls[1].digest \o t.tls[2].digest)
                                  \o Hash(t.hash, t.tls[3].digest))]

\* C10 witness: a tree reconstructed by an append over five leaves; its rows have three,
\* two and one nodes, and the last node of the rows of three and of two has a single child.
C10_Witness ==
  /\ call.op = "AppendAndReconstruct"
  /\ NumLeaves(t) = 5
  /\ Len(t.mns) = 3
  /\ Len(t.mns[3]) = 3
  /\ Len(t.mns[2]) = 2

\* The tree tr has the leaves (orderedIDs included), the rows of merkle nodes and the root
\* of the tree that the call of NewTree returning r built.
BuiltAs(tr, r) ==
  /\ r.err = NoErr
  /\ tr.tls = r.tree.tls
  /\ tr.mns = r.tree.mns
  /\ MerkleRoot(tr) = MerkleRoot(r.tree)

\* C11: after an AppendAndReconstruct of new distinct data or a DeleteAndReconstruct of
\* stored data that leaves the tree non-empty, the tree (its leaves with their orderedIDs,
\* its rows of merkle nodes, hence its root) is the tree NewTree builds from the data that
\* remain, in insertion order; and with an empty argument list both calls leave the root,
\* the height and the number of leaves as they were.
C11_ReconstructIsFreshBuild ==
  (call.op \in {"AppendAndReconstruct", "DeleteAndReconstruct"} /\ inserted.known) =>
    /\ ret = Done
    /\ NumLeaves(t) > 0 => BuiltAs(t, NewTree(t.hash, inserted.data))
    /\ Len(call.args) = 0 =>
         /\ MerkleRoot(t) = MerkleRoot(pre)
         /\ Height(t) = Height(pre)
         /\ NumLeaves(t) = NumLeaves(pre)

\* C11 witness: one datum was deleted from a tree, at least three leaves remain, and a leaf
\* that remains was renumbered (the datum deleted was not the last one inserted).
C11_Witness ==
  /\ call.op = "DeleteAndReconstruct"
  /\ inserted.known
  /\ Len(call.args) = 1
  /\ NumLeaves(t) >= 3
  /\ \E k \in DOMAIN t.tls : \E m \in DOMAIN pre.tls :
       t.tls[k].datum = pre.tls[m].datum /\ t.tls[k].orderedID # pre.tls[m].orderedID
  /\ t = NewTree(t.hash, inserted.data).tree

\* The leaves of tree a are those of tree b but for the digest field of exactly one leaf.
OneLeafDigestAltered(a, b) ==
  /\ a.hash = b.hash
  /\ a.mns = b.mns
  /\ Len(a.tls) = Len(b.tls)
  /\ \E k \in DOMAIN b.tls :
       /\ a.tls[k].digest # b.tls[k].digest
       /\ a.tls = [b.tls EXCEPT ![k].digest = a.tls[k].digest]

\* C12 (as claimed): when the digest field of any one leaf k is altered, every datum and
\* every merkle node being as built, verification of every leaf i (k = i or k # i) still
\* returns (true, nil).  Stated for the trees of at least two leaves.
C12_LeafDigestNeverTrusted ==
  (call.op = "VerifyDatum" /\ call.args \in Stored(t) /\ base # Nil
     /\ NumLeaves(base) >= 2 /\ OneLeafDigestAltered(pre, base)) =>
    ret = Verified

\* The index in the row levelsUp rows above the leaves of the node the path of leaf x
\* passes through.
RECURSIVE AncestorIndex(_, _)
AncestorIndex(x, levelsUp) ==
  IF levelsUp = 0 THEN x ELSE AncestorIndex(x \div 2, levelsUp - 1)

\* Trees a and b differ in the merkle node j of row i (0-based, row 0 the root) and nowhere else.
OneNodeAlteredAt(a, b, i, j) ==
  /\ a.hash = b.hash
  /\ a.tls = b.tls
  /\ Len(a.mns) = Len(b.mns)
  /\ At(At(a.mns, i), j) # At(At(b.mns, i), j)
  /\ a.mns = [b.mns EXCEPT ![i + 1][j + 1] = At(At(a.mns, i), j)]

\* C13: when one merkle node (the root included) of a correctly built tree is altered,
\* verification of every leaf whose path to the root passes through that node returns
\* (false, nil): neither (true, nil) nor (false, ErrNoData).
C13_NodeAlteredNotVerified ==
  (call.op = "VerifyDatum" /\ call.args \in Stored(t) /\ base # Nil) =>
    \A i \in 0..(Len(base.mns) - 1) : \A j \in 0..(Len(At(base.mns, i)) - 1) :
      (/\ OneNodeAlteredAt(pre, base, i, j)
       /\ AncestorIndex(LeafIndexOf(base, call.args), Len(base.mns) - i) = j) =>
        ret = NotVerified

\* C13 witness: the root of a tree of five leaves was altered and the last leaf, whose path
\* meets a node without a sibling at two rows, was not verified.
C13_Witness ==
  /\ call.op = "VerifyDatum"
  /\ base # Nil
  /\ NumLeaves(base) = 5
  /\ OneNodeAlteredAt(pre, base, 0, 0)
  /\ LeafIndexOf(base, call.args) = 4
  /\ ret = NotVerified

\* C14: in every tree reached by NewTree, appends and deletes, the orderedIDs of the leaves
\* are exactly 0 .. NumLeaves()-1, no two leaves share one, and the leaves are stored in
\* ascending order of their serialized data; so VerifyOrderedID(id) finds a leaf iff
\* id < NumLeaves(), and returns (false, ErrNoData) otherwise.
C14_OrderedIDsCompact ==
  t # Nil =>
    /\ {t.tls[k].orderedID : k \in DOMAIN t.tls} = 0..(NumLeaves(t) - 1)
    /\ \A k, m \in DOMAIN t.tls : k # m => t.tls[k].orderedID # t.tls[m].orderedID
    /\ \A k \in 1..(NumLeaves(t) - 1) : Compare(t.tls[k].datum, t.tls[k + 1].datum) = -1
    /\ call.op = "VerifyOrderedID" =>
         (call.args >= NumLeaves(t) <=> ret = NoData)

\* C14 witness: VerifyOrderedID of the highest orderedID of a tree of at least three leaves
\* found the leaf, which is not the last leaf stored, and verified it.
C14_Witness ==
  /\ call.op = "VerifyOrderedID"
  /\ NumLeaves(t) >= 3
  /\ call.args = NumLeaves(t) - 1
  /\ At(t.tls, NumLeaves(t) - 1).orderedID # call.args
  /\ ret = Verified

====
